---- MODULE Spec2Model ----
(***************************************************************************)
(* Model of src/main.ts: the browser client that requests the microphone,  *)
(* fetches an access token, opens a VoiceClient connection, streams the    *)
(* recorder's chunks to it, plays the audio replies from a queue and       *)
(* renders the transcript.                                                 *)
(*                                                                         *)
(* Every event-loop task (a handler run to its first real await) is one    *)
(* action.  The browser and the SDK are the environment: they deliver      *)
(* open/close/message events, settle promises, let a playing clip reach    *)
(* its end and deliver its 'ended' event.                                  *)
(***************************************************************************)
EXTENDS Integers, Sequences, FiniteSets, TLC

\* Bounds of the model.
MaxClients == 2      \* VoiceClient objects created by connect()
MaxInputs == 4       \* inputs handled: messages received, clicks, and
                     \* recorder chunks accepted for sending

ClientIds == 1..MaxClients
\* Every audio_output message is an input.
ClipIds == 1..MaxInputs
\* Every client opens at most once, so captureAudio() runs at most once per
\* client and creates at most one MediaRecorder.
RecorderIds == 1..MaxClients

VARIABLES
  \* startup sequence (main.ts:15-32)
  startupPc,        \* position of the async IIFE
  micResult,        \* outcome of requestMicrophonePermission
  authResult,       \* outcome of authenticate
  authCalls,        \* number of token fetches issued
  startupConnects,  \* connect() calls made by the startup sequence
  clickRegistered,  \* gif click listener installed
  accessToken,
  \* connection
  client,           \* the current VoiceClient handle, 0 = null
  readyState,       \* per VoiceClient: NONE (not created) or the socket state
  clientAuth,       \* per VoiceClient: the token its config was created with
  sinceDisconnect,  \* history: which of connect() and an 'open' event have
                    \*   happened since the last disconnect() (both, if none)
  \* playback
  audioQueue,       \* queue of clips (clip ids in arrival order)
  isPlaying,
  currentAudio,     \* the Audio element of a clip, 0 = null
  clipState,        \* per clip: new, queued, playing, failed, finished,
                    \*   ended, paused, dropped
  startLog,         \* history: clips in the order playAudio started them
  cancelled,        \* history: clips queued or current at a stopAudio
  \* capture
  recorder,         \* the current MediaRecorder, 0 = null
  audioStream,      \* the current MediaStream: "null" or "stream"
  recState,         \* per MediaRecorder: none, recording, inactive
  pendingCaptures,  \* captureAudio() calls awaiting getAudioStream()
  pendingSends,     \* sizes of chunks whose arrayBuffer() is awaited
  \* transcript
  chat,             \* the <p> entries appended to the chat element
  received,         \* history: user/assistant messages in arrival order
  inputs,           \* history: number of inputs handled
  last              \* history: the handler that ran in the last step

startupVars == <<startupPc, micResult, authResult, authCalls, startupConnects,
                 clickRegistered, accessToken>>
connVars == <<client, readyState, clientAuth, sinceDisconnect>>
audioVars == <<audioQueue, isPlaying, currentAudio, clipState, startLog,
               cancelled>>
captureVars == <<recorder, audioStream, recState, pendingCaptures>>
chatVars == <<chat, received>>
vars == <<startupVars, connVars, audioVars, captureVars, pendingSends,
          chatVars, inputs, last>>

\* The value of last after a handler: its name, what it called (the function
\* a click called, the readyState sendAudio was called in) and the size of
\* the chunk sent.
Ran(h, arg, n) == [h |-> h, arg |-> arg, size |-> n]
Other == Ran("other", "none", 0)

Range(s) == {s[i] : i \in 1..Len(s)}

NumClients == Cardinality({c \in ClientIds : readyState[c] # "NONE"})
NumClips == Cardinality({c \in ClipIds : clipState[c] # "new"})
NumRecorders == Cardinality({r \in RecorderIds : recState[r] # "none"})

\* The page as loaded: nothing requested, no client, nothing queued.
Init ==
  /\ startupPc = "start"
  /\ micResult = "none"
  /\ authResult = "none"
  /\ authCalls = 0
  /\ startupConnects = 0
  /\ clickRegistered = FALSE
  /\ accessToken = "unset"
  /\ client = 0
  /\ readyState = [c \in ClientIds |-> "NONE"]
  /\ clientAuth = [c \in ClientIds |-> "none"]
  /\ sinceDisconnect = {"connect", "open"}
  /\ audioQueue = <<>>
  /\ isPlaying = FALSE
  /\ currentAudio = 0
  /\ clipState = [c \in ClipIds |-> "new"]
  /\ startLog = <<>>
  /\ cancelled = {}
  /\ recorder = 0
  /\ audioStream = "null"
  /\ recState = [r \in RecorderIds |-> "none"]
  /\ pendingCaptures = 0
  /\ pendingSends = <<>>
  /\ chat = <<>>
  /\ received = <<>>
  /\ inputs = 0
  /\ last = Other

----------------------------------------------------------------------------
\* Playback: playAudio and stopAudio as functions of the playback state.

AudioState ==
  [q |-> audioQueue, playing |-> isPlaying, cur |-> currentAudio,
   cs |-> clipState, log |-> startLog, cancelled |-> cancelled]

SetAudio(a) ==
  /\ audioQueue' = a.q
  /\ isPlaying' = a.playing
  /\ currentAudio' = a.cur
  /\ clipState' = a.cs
  /\ startLog' = a.log
  /\ cancelled' = a.cancelled

\* Mutant of playAudio: takes the newest clip (pop() in place of shift()).
playAudioNewestFirst(a, ok) ==
  IF Len(a.q) > 0 /\ ~a.playing
  THEN LET audioBlob == a.q[Len(a.q)]
       IN [a EXCEPT !.playing = TRUE,
                    !.q = SubSeq(a.q, 1, Len(a.q) - 1),
                    !.cur = audioBlob,
                    !.cs[audioBlob] = IF ok THEN "playing" ELSE "failed",
                    !.log = Append(@, audioBlob)]
  ELSE a

\* playAudio(): ok is whether currentAudio.play() starts playback (its promise
\* is not observed by the code; a rejected play() never leads to 'ended').
playAudio(a, ok) ==
  IF Len(a.q) > 0 /\ ~a.playing
  THEN LET audioBlob == Head(a.q)
       IN [a EXCEPT !.playing = TRUE,
                    !.q = Tail(a.q),
                    !.cur = audioBlob,
                    !.cs[audioBlob] = IF ok THEN "playing" ELSE "failed",
                    !.log = Append(@, audioBlob)]
  ELSE a

\* Mutant of stopAudio: the queue is not emptied.
stopAudioKeepsQueue(a) ==
  LET hit == Range(a.q) \cup (IF a.cur = 0 THEN {} ELSE {a.cur})
  IN [a EXCEPT !.cs = [c \in ClipIds |->
                         IF c = a.cur /\ a.cs[c] = "playing" THEN "paused"
                         ELSE a.cs[c]],
               !.cur = 0,
               !.playing = FALSE,
               !.cancelled = @ \cup hit]

\* stopAudio(): pause() stops a playing clip; a clip whose end was already
\* reached keeps its queued 'ended' event.
stopAudio(a) ==
  LET hit == Range(a.q) \cup (IF a.cur = 0 THEN {} ELSE {a.cur})
  IN [a EXCEPT !.cs = [c \in ClipIds |->
                         IF c = a.cur /\ a.cs[c] = "playing" THEN "paused"
                         ELSE IF c \in Range(a.q) THEN "dropped"
                         ELSE a.cs[c]],
               !.cur = 0,
               !.playing = FALSE,
               !.q = <<>>,
               !.cancelled = @ \cup hit]

\* Mutant of appendMessage: the entry is inserted before the others.
appendMessageFirst(log, role, content) ==
  <<[role |-> role, content |-> content]>> \o log

\* appendMessage(role, content): one <p> entry at the end of the chat.
appendMessage(log, role, content) ==
  Append(log, [role |-> role, content |-> content])

----------------------------------------------------------------------------
\* Startup sequence.

\* await connect() resumes in a microtask: no event task runs between the
\* startup connect() and the registration of the click listener.
NoMicrotaskPending == startupPc # "register"

RequestMicrophonePermission ==
  /\ startupPc = "start"
  /\ startupPc' = "mic_await"
  /\ last' = Other
  /\ UNCHANGED <<micResult, authResult, authCalls, startupConnects,
                 clickRegistered, accessToken>>
  /\ UNCHANGED <<connVars, audioVars, captureVars, pendingSends, chatVars, inputs>>

\* getAudioStream() settles; a rejection is caught and logged.
MicSettled(ok) ==
  /\ startupPc = "mic_await"
  /\ micResult' = IF ok THEN "granted" ELSE "error_logged"
  /\ startupPc' = "auth"
  /\ last' = Other
  /\ UNCHANGED <<authResult, authCalls, startupConnects, clickRegistered,
                 accessToken>>
  /\ UNCHANGED <<connVars, audioVars, captureVars, pendingSends, chatVars, inputs>>

\* Mutant of Authenticate: the startup sequence does not await it.
AuthenticateNotAwaited ==
  /\ startupPc = "auth"
  /\ authCalls' = authCalls + 1
  /\ startupPc' = "connect"
  /\ last' = Other
  /\ UNCHANGED <<micResult, authResult, startupConnects, clickRegistered,
                 accessToken>>
  /\ UNCHANGED <<connVars, audioVars, captureVars, pendingSends, chatVars, inputs>>

\* authenticate() up to the await of fetch().
Authenticate ==
  /\ startupPc = "auth"
  /\ authCalls' = authCalls + 1
  /\ startupPc' = "auth_await"
  /\ last' = Other
  /\ UNCHANGED <<micResult, authResult, startupConnects, clickRegistered,
                 accessToken>>
  /\ UNCHANGED <<connVars, audioVars, captureVars, pendingSends, chatVars, inputs>>

\* The fetch and res.json() settle: a token, a body without access_token
\* (String(undefined)), or a rejection that is caught and logged.
AuthOutcomes == {"token", "no_token_field", "throw"}

\* Mutant of AuthSettled: a rejection is not caught and ends the startup
\* sequence.
AuthSettledNoCatch(outcome) ==
  /\ startupPc = "auth_await"
  /\ accessToken' = CASE outcome = "token" -> "token"
                      [] outcome = "no_token_field" -> "undefined"
                      [] OTHER -> accessToken
  /\ authResult' = IF outcome = "throw" THEN "error_logged" ELSE "fetched"
  /\ startupPc' = IF outcome = "throw" THEN "aborted" ELSE "connect"
  /\ last' = Other
  /\ UNCHANGED <<micResult, authCalls, startupConnects, clickRegistered>>
  /\ UNCHANGED <<connVars, audioVars, captureVars, pendingSends, chatVars, inputs>>

AuthSettled(outcome) ==
  /\ startupPc = "auth_await"
  /\ accessToken' = CASE outcome = "token" -> "token"
                      [] outcome = "no_token_field" -> "undefined"
                      [] OTHER -> accessToken
  /\ authResult' = IF outcome = "throw" THEN "error_logged" ELSE "fetched"
  /\ startupPc' = "connect"
  /\ last' = Other
  /\ UNCHANGED <<micResult, authCalls, startupConnects, clickRegistered>>
  /\ UNCHANGED <<connVars, audioVars, captureVars, pendingSends, chatVars, inputs>>

\* connect(): a new VoiceClient replaces the handle and starts connecting.
connect ==
  /\ NumClients < MaxClients
  /\ LET c == NumClients + 1
     IN /\ client' = c
        /\ readyState' = [readyState EXCEPT ![c] = "CONNECTING"]
        /\ clientAuth' = [clientAuth EXCEPT ![c] = accessToken]
  /\ sinceDisconnect' = sinceDisconnect \cup {"connect"}

StartupConnect ==
  /\ startupPc = "connect"
  /\ connect
  /\ startupConnects' = startupConnects + 1
  /\ startupPc' = "register"
  /\ last' = Other
  /\ UNCHANGED <<micResult, authResult, authCalls, clickRegistered,
                 accessToken>>
  /\ UNCHANGED <<audioVars, captureVars, pendingSends, chatVars, inputs>>

RegisterClick ==
  /\ startupPc = "register"
  /\ clickRegistered' = TRUE
  /\ startupPc' = "done"
  /\ last' = Other
  /\ UNCHANGED <<micResult, authResult, authCalls, startupConnects,
                 accessToken>>
  /\ UNCHANGED <<connVars, audioVars, captureVars, pendingSends, chatVars, inputs>>

----------------------------------------------------------------------------
\* Connection events of a VoiceClient (delivered by the SDK's socket).

\* 'open': the handler logs and calls captureAudio(), which awaits
\* getAudioStream().
OpenEvent(c) ==
  /\ NoMicrotaskPending
  /\ readyState[c] = "CONNECTING"
  /\ readyState' = [readyState EXCEPT ![c] = "OPEN"]
  /\ pendingCaptures' = pendingCaptures + 1
  /\ sinceDisconnect' = sinceDisconnect \cup {"open"}
  /\ last' = Other
  /\ UNCHANGED <<client, clientAuth, recorder, audioStream, recState>>
  /\ UNCHANGED <<startupVars, audioVars, pendingSends, chatVars, inputs>>

\* 'close' (a failed connect, a close by the server, or the end of a close
\* started by client.disconnect()): the handler only logs.
CloseEvent(c) ==
  /\ NoMicrotaskPending
  /\ readyState[c] \in {"CONNECTING", "OPEN", "CLOSING"}
  /\ readyState' = [readyState EXCEPT ![c] = "CLOSED"]
  /\ last' = Other
  /\ UNCHANGED <<client, clientAuth, sinceDisconnect>>
  /\ UNCHANGED <<startupVars, audioVars, captureVars, pendingSends, chatVars, inputs>>

\* A socket delivers message events only while it is open.
Delivers(c) == readyState[c] = "OPEN"

\* The role a message of each type carries in message.message.role.
RoleOf(type) == IF type = "user_message" THEN "user" ELSE "assistant"

\* 'message' with type user_message or assistant_message.
ChatMessage(c, type) ==
  /\ Delivers(c)
  /\ inputs < MaxInputs
  /\ LET role == RoleOf(type)
         content == ToString(Len(received) + 1)
     IN /\ chat' = appendMessage(chat, role, content)
        /\ received' = Append(received, [role |-> role, content |-> content])
  /\ inputs' = inputs + 1
  /\ last' = Other
  /\ UNCHANGED <<startupVars, connVars, audioVars, captureVars, pendingSends>>

\* 'message' with type audio_output: push the clip, play it if it is alone
\* in the queue.
AudioOutput(c, ok) ==
  /\ Delivers(c)
  /\ inputs < MaxInputs
  /\ LET blob == NumClips + 1
         a == AudioState
         pushed == [a EXCEPT !.q = Append(@, blob),
                             !.cs[blob] = "queued"]
     IN SetAudio(IF Len(pushed.q) <= 1 THEN playAudio(pushed, ok) ELSE pushed)
  /\ inputs' = inputs + 1
  /\ last' = Other
  /\ UNCHANGED <<startupVars, connVars, captureVars, pendingSends, chatVars>>

\* 'message' with type user_interruption.
UserInterruption(c) ==
  /\ Delivers(c)
  /\ inputs < MaxInputs
  /\ SetAudio(stopAudio(AudioState))
  /\ inputs' = inputs + 1
  /\ last' = Ran("user_interruption", "none", 0)
  /\ UNCHANGED <<startupVars, connVars, captureVars, pendingSends, chatVars>>

----------------------------------------------------------------------------
\* Media element events.

\* A playing clip reaches its end: the browser queues its 'ended' event.
ReachEnd(c) ==
  /\ clipState[c] = "playing"
  /\ clipState' = [clipState EXCEPT ![c] = "finished"]
  /\ last' = Other
  /\ UNCHANGED <<audioQueue, isPlaying, currentAudio, startLog, cancelled>>
  /\ UNCHANGED <<startupVars, connVars, captureVars, pendingSends, chatVars,
                 inputs>>

\* Mutant of EndedHandler: the next clip is not started.
EndedHandlerNoRestart(c, ok) ==
  /\ clipState[c] = "finished"
  /\ LET a == AudioState
     IN SetAudio([a EXCEPT !.playing = FALSE, !.cs[c] = "ended"])
  /\ last' = Other
  /\ UNCHANGED <<startupVars, connVars, captureVars, pendingSends, chatVars,
                 inputs>>

\* onended of the clip's Audio element.
EndedHandler(c, ok) ==
  /\ clipState[c] = "finished"
  /\ LET a == AudioState
         idle == [a EXCEPT !.playing = FALSE, !.cs[c] = "ended"]
     IN SetAudio(IF Len(idle.q) > 0 THEN playAudio(idle, ok) ELSE idle)
  /\ last' = Other
  /\ UNCHANGED <<startupVars, connVars, captureVars, pendingSends, chatVars,
                 inputs>>

----------------------------------------------------------------------------
\* Capture.

\* captureAudio() after its await: getAudioStream() rejected, or the stream
\* is assigned and the recorder starts.
CaptureOutcomes == {"reject", "ok"}

CaptureSettled(outcome) ==
  /\ pendingCaptures > 0
  /\ pendingCaptures' = pendingCaptures - 1
  /\ audioStream' = IF outcome = "reject" THEN audioStream ELSE "stream"
  /\ IF outcome = "ok"
     THEN LET r == NumRecorders + 1
          IN /\ recorder' = r
             /\ recState' = [recState EXCEPT ![r] = "recording"]
     ELSE UNCHANGED <<recorder, recState>>
  /\ last' = Other
  /\ UNCHANGED <<startupVars, connVars, audioVars, pendingSends, chatVars,
                 inputs>>

\* recorder.ondataavailable up to its await of data.arrayBuffer().
DataAvailable(r, size) ==
  /\ recState[r] = "recording"
  /\ IF size > 0 /\ client # 0 /\ readyState[client] = "OPEN"
     THEN /\ inputs < MaxInputs
          /\ pendingSends' = Append(pendingSends, size)
          /\ inputs' = inputs + 1
     ELSE UNCHANGED <<pendingSends, inputs>>
  /\ last' = Other
  /\ UNCHANGED <<startupVars, connVars, audioVars, captureVars, chatVars>>

\* recorder.ondataavailable after the await: client?.sendAudio(buffer).
ArrayBufferSettled ==
  /\ Len(pendingSends) > 0
  /\ pendingSends' = Tail(pendingSends)
  /\ last' = IF client # 0
             THEN Ran("sendAudio", readyState[client], Head(pendingSends))
             ELSE Other
  /\ UNCHANGED <<startupVars, connVars, audioVars, captureVars, chatVars,
                 inputs>>

----------------------------------------------------------------------------
\* The click listener.

\* client.disconnect(): an open or connecting socket starts closing.
Closing(state) == IF state \in {"CONNECTING", "OPEN"} THEN "CLOSING" ELSE state

\* Mutant of disconnect: the recorder is dropped without being stopped.
disconnectLeavesRecorder ==
  /\ SetAudio(stopAudio(AudioState))
  /\ recState' = recState
  /\ recorder' = 0
  /\ audioStream' = "null"
  /\ readyState' = IF client # 0
                   THEN [readyState EXCEPT ![client] = Closing(@)]
                   ELSE readyState
  /\ chat' = appendMessage(chat, "system", "Conversation ended.")
  /\ sinceDisconnect' = {}
  /\ UNCHANGED <<client, clientAuth, pendingCaptures, received>>

disconnect ==
  /\ SetAudio(stopAudio(AudioState))
  /\ recState' = IF recorder # 0
                 THEN [recState EXCEPT ![recorder] = "inactive"]
                 ELSE recState
  /\ recorder' = 0
  /\ audioStream' = "null"
  /\ readyState' = IF client # 0
                   THEN [readyState EXCEPT ![client] = Closing(@)]
                   ELSE readyState
  /\ chat' = appendMessage(chat, "system", "Conversation ended.")
  /\ sinceDisconnect' = {}
  /\ UNCHANGED <<client, clientAuth, pendingCaptures, received>>

\* Mutant of Click: reconnects only a closed client.
ClickReconnectsOnlyClosed ==
  /\ clickRegistered
  /\ inputs < MaxInputs
  /\ inputs' = inputs + 1
  /\ IF client # 0
     THEN IF readyState[client] = "OPEN"
          THEN /\ disconnect
               /\ last' = Ran("click", "disconnect", 0)
          ELSE IF readyState[client] = "CLOSED"
          THEN /\ connect
               /\ last' = Ran("click", "connect", 0)
               /\ UNCHANGED <<audioVars, captureVars, chatVars>>
          ELSE /\ last' = Ran("click", "none", 0)
               /\ UNCHANGED <<connVars, audioVars, captureVars, chatVars>>
     ELSE /\ last' = Ran("click", "none", 0)
          /\ UNCHANGED <<connVars, audioVars, captureVars, chatVars>>
  /\ UNCHANGED <<startupVars, pendingSends>>

Click ==
  /\ clickRegistered
  /\ inputs < MaxInputs
  /\ inputs' = inputs + 1
  /\ IF client # 0
     THEN IF readyState[client] = "OPEN"
          THEN /\ disconnect
               /\ last' = Ran("click", "disconnect", 0)
          ELSE /\ connect
               /\ last' = Ran("click", "connect", 0)
               /\ UNCHANGED <<audioVars, captureVars, chatVars>>
     ELSE /\ last' = Ran("click", "none", 0)
          /\ UNCHANGED <<connVars, audioVars, captureVars, chatVars>>
  /\ UNCHANGED <<startupVars, pendingSends>>

----------------------------------------------------------------------------
Next ==
  \/ RequestMicrophonePermission
  \/ \E ok \in BOOLEAN : MicSettled(ok)
  \/ Authenticate
  \/ \E outcome \in AuthOutcomes : AuthSettled(outcome)
  \/ StartupConnect
  \/ RegisterClick
  \/ \E c \in ClientIds : OpenEvent(c)
  \/ \E c \in ClientIds : CloseEvent(c)
  \/ \E c \in ClientIds, type \in {"user_message", "assistant_message"} :
       ChatMessage(c, type)
  \/ \E c \in ClientIds, ok \in BOOLEAN : AudioOutput(c, ok)
  \/ \E c \in ClientIds : UserInterruption(c)
  \/ \E c \in ClipIds : ReachEnd(c)
  \/ \E c \in ClipIds, ok \in BOOLEAN : EndedHandler(c, ok)
  \/ \E outcome \in CaptureOutcomes : CaptureSettled(outcome)
  \/ \E r \in RecorderIds, size \in {0, 1} : DataAvailable(r, size)
  \/ ArrayBufferSettled
  \/ Click

Spec == Init /\ [][Next]_vars

\* The browser runs a playing clip to its end and runs the queued 'ended'
\* task of every clip.
Fairness ==
  \A c \in ClipIds :
    /\ WF_vars(ReachEnd(c))
    /\ WF_vars(\E ok \in BOOLEAN : EndedHandler(c, ok))

FairSpec == Spec /\ Fairness

----------------------------------------------------------------------------
\* Properties.

Playing == {c \in ClipIds : clipState[c] = "playing"}
Increasing(s) == \A i, j \in 1..Len(s) : i < j => s[i] < s[j]

\* C1: clips are started in the order their audio_output messages arrived
\* (clip ids are arrival numbers), each at most once: the start log is
\* strictly increasing, the queue is in arrival order and holds only clips
\* that arrived after every started clip, and a clip is started only when
\* every clip that arrived before it was started or cancelled by stopAudio.
C1_FifoOrder ==
  /\ Increasing(startLog)
  /\ Increasing(audioQueue)
  /\ \A i \in 1..Len(startLog), j \in 1..Len(audioQueue) :
       startLog[i] < audioQueue[j]
  /\ \A c \in Range(startLog), d \in ClipIds :
       d < c => d \in Range(startLog) \/ d \in cancelled

\* C1 witness: two clips started in order with a third waiting behind a
\* playing clip, and no stopAudio so far.
C1_Witness ==
  /\ startLog = <<1, 2>>
  /\ audioQueue = <<3>>
  /\ clipState[2] = "playing"
  /\ cancelled = {}

\* C2: every clip that is enqueued is eventually started (or removed by a
\* stopAudio), under fairness of the media events.
C2_EveryClipEventuallyStarted ==
  \A c \in ClipIds : (clipState[c] = "queued") ~> (clipState[c] # "queued")

\* C3: a step in which disconnect() runs leaves the queue empty, isPlaying
\* false, currentAudio null, the recorder that was current stopped, recorder
\* and audioStream null, the open client closing, and exactly one system
\* entry 'Conversation ended.' more in the chat.
C3_DisconnectStopsEverything ==
  [][last'.h = "click" /\ last'.arg = "disconnect" =>
       /\ audioQueue' = <<>>
       /\ ~isPlaying'
       /\ currentAudio' = 0
       /\ currentAudio # 0 => clipState'[currentAudio] # "playing"
       /\ recorder # 0 => recState'[recorder] = "inactive"
       /\ recorder' = 0
       /\ audioStream' = "null"
       /\ client # 0 /\ readyState'[client] = "CLOSING"
       /\ chat' = Append(chat, [role |-> "system",
                                content |-> "Conversation ended."])]_vars

\* C3 witness: disconnect() has just stopped a playing clip, dropped a
\* queued one and stopped a recorder.
C3_Witness ==
  /\ last = Ran("click", "disconnect", 0)
  /\ \E c \in ClipIds : clipState[c] = "paused"
  /\ \E c \in ClipIds : clipState[c] = "dropped"
  /\ \E r \in RecorderIds : recState[r] = "inactive"

\* C4: a step that handles user_interruption leaves isPlaying false,
\* currentAudio null and the queue empty, and no step ever starts a clip
\* that was queued or current at a stopAudio or was started before.
C4_InterruptionStopsPlayback ==
  [][/\ last'.h = "user_interruption" =>
          /\ ~isPlaying'
          /\ currentAudio' = 0
          /\ audioQueue' = <<>>
          /\ Range(audioQueue) \subseteq cancelled'
          /\ currentAudio # 0 =>
               currentAudio \in cancelled' /\ clipState'[currentAudio] # "playing"
     /\ Len(startLog') > Len(startLog) =>
          startLog'[Len(startLog')] \notin cancelled \cup Range(startLog)]_vars

\* C4 witness: an interruption has just stopped a playing clip and dropped
\* a queued one (no disconnect has run).
C4_Witness ==
  /\ last.h = "user_interruption"
  /\ \E c \in ClipIds : clipState[c] = "paused"
  /\ \E c \in ClipIds : clipState[c] = "dropped"
  /\ \A e \in Range(chat) : e.role # "system"

\* C5: sendAudio is called only with a non-empty chunk and only while the
\* current client's readyState is OPEN.
C5_SendOnlyWhenOpen ==
  last.h = "sendAudio" => last.arg = "OPEN" /\ last.size > 0

StartupPositions ==
  {"start", "mic_await", "auth", "auth_await", "connect", "register", "done"}

\* C6: a failed microphone request or token fetch is caught and the startup
\* sequence goes on: it never ends early, authenticate is attempted once
\* and the startup sequence calls connect() once.
C6_ErrorsOnlyLogged ==
  /\ startupPc \in StartupPositions
  /\ authCalls <= 1
  /\ startupConnects <= 1
  /\ micResult = "error_logged" =>
       startupPc \in {"auth", "auth_await", "connect", "register", "done"}
  /\ authResult = "error_logged" =>
       startupPc \in {"connect", "register", "done"}
  /\ startupPc \in {"auth_await", "connect", "register", "done"} =>
       authCalls = 1
  /\ startupPc \in {"register", "done"} => startupConnects = 1

\* C6 witness: both the microphone request and the token fetch failed, and
\* the startup sequence has finished with one connect().
C6_Witness ==
  /\ micResult = "error_logged"
  /\ authResult = "error_logged"
  /\ accessToken = "unset"
  /\ startupPc = "done"
  /\ authCalls = 1
  /\ startupConnects = 1

\* C7: the microphone request has settled before authenticate starts,
\* authenticate has settled before a client exists, the click listener is
\* registered only once the startup connect() was called, and no capture
\* has started unless a client has left CONNECTING (its 'open' event).
C7_StartupOrder ==
  /\ authCalls > 0 => micResult # "none"
  /\ NumClients > 0 => authResult # "none" /\ startupConnects = 1
  /\ clickRegistered => startupConnects = 1 /\ client # 0
  /\ pendingCaptures + NumRecorders <=
       Cardinality({c \in ClientIds :
                      readyState[c] \in {"OPEN", "CLOSING", "CLOSED"}})
  /\ (\A c \in ClientIds : readyState[c] \in {"NONE", "CONNECTING"}) =>
       pendingCaptures = 0 /\ recorder = 0 /\ audioStream = "null"

\* C7 witness: startup is complete and a recorder runs on an open client.
C7_Witness ==
  /\ startupPc = "done"
  /\ clickRegistered
  /\ recorder # 0
  /\ recState[recorder] = "recording"
  /\ readyState[client] = "OPEN"

IsConversation(e) == e.role # "system"

\* C8: the chat entries other than the system entries are exactly the
\* user and assistant messages received, in arrival order, with their role
\* and content; nothing else adds an entry except disconnect().
C8_TranscriptReflectsMessages ==
  /\ SelectSeq(chat, IsConversation) = received
  /\ Len(chat) - Len(received) <=
       Cardinality({c \in ClientIds : readyState[c] \in {"CLOSING", "CLOSED"}})

\* C8 witness: two messages of different roles were received, and an
\* audio_output and a user_interruption were handled too.
C8_Witness ==
  /\ Len(received) = 2
  /\ received[1].role # received[2].role
  /\ NumClips = 1
  /\ last.h = "user_interruption"
  /\ Len(chat) = 2

\* C9: at most one clip is playing at any time.
C9_AtMostOnePlaying == Cardinality(Playing) <= 1

\* C10: a click with an open client calls disconnect() (that client starts
\* closing, no client is created); a click with a client in any other state
\* calls connect() (a new connecting client replaces the handle, playback,
\* capture and chat are untouched); a click without a client does nothing.
C10_ClickToggles ==
  [][last'.h = "click" =>
       /\ client # 0 /\ readyState[client] = "OPEN" =>
            /\ last'.arg = "disconnect"
            /\ client' = client
            /\ readyState'[client] = "CLOSING"
            /\ NumClients' = NumClients
       /\ client # 0 /\ readyState[client] # "OPEN" =>
            /\ last'.arg = "connect"
            /\ client' # client
            /\ readyState[client'] = "NONE"
            /\ readyState'[client'] = "CONNECTING"
            /\ readyState'[client] = readyState[client]
            /\ UNCHANGED <<audioVars, captureVars, chatVars>>
       /\ client = 0 =>
            /\ last'.arg = "none"
            /\ UNCHANGED <<connVars, audioVars, captureVars, chatVars>>]_vars

\* C10 witness: a click has just reconnected after an earlier click
\* disconnected.
C10_Witness ==
  /\ last = Ran("click", "connect", 0)
  /\ client = 2
  /\ readyState[1] \in {"CLOSING", "CLOSED"}
  /\ \E i \in 1..Len(chat) : chat[i].role = "system"

Live == {c \in ClientIds : readyState[c] \in {"CONNECTING", "OPEN"}}

\* C11: at most one VoiceClient is connecting or open at any time.
C11_AtMostOneLiveClient == Cardinality(Live) <= 1

Recording == {r \in RecorderIds : recState[r] = "recording"}

\* C12: at most one MediaRecorder is recording at any time, and from a
\* disconnect() until the next 'open' event no recorder is recording.
C12_CaptureWithinConnection ==
  /\ Cardinality(Recording) <= 1
  /\ "open" \notin sinceDisconnect => Recording = {}

\* C13: after every handler, a non-empty queue implies isPlaying, and
\* isPlaying implies currentAudio is not null.
C13_NoClipWaitsIdle ==
  /\ audioQueue # <<>> => isPlaying
  /\ isPlaying => currentAudio # 0

\* C13 witness: an 'ended' handler has started the next clip from the queue
\* and another clip still waits behind it.
C13_Witness ==
  /\ Len(startLog) = 2
  /\ clipState[startLog[1]] = "ended"
  /\ clipState[startLog[2]] = "playing"
  /\ audioQueue # <<>>
  /\ isPlaying
  /\ currentAudio = startLog[2]
  /\ cancelled = {}

\* C14: from a disconnect() until connect() is invoked again, no step
\* starts a clip.
C14_StoppedAfterDisconnect ==
  []["connect" \notin sinceDisconnect => startLog' = startLog]_vars

====
